---------------------------- MODULE Spec2Model ----------------------------
(***************************************************************************)
(* TrendMerch: the design generation pipeline of design.py and the         *)
(* distribution sinks of cloud_uploader.py and printful_uploader.py.       *)
(*                                                                         *)
(*   generate_design   the retry loop around the remote synthesis call     *)
(*   resize_for_print  the print-canvas geometry                           *)
(*   process_trend     generate -> remove background -> resize -> save     *)
(*   get_trending_topics, auto_generate   trends and the batch loop        *)
(*   upload_to_imgbb, create_github_release, upload_designs                *)
(*   upload_designs_to_printful, create_mockup                             *)
(*                                                                         *)
(* Python's float is an IEEE-754 binary64.  resize_for_print divides and   *)
(* multiplies in that type and truncates the result with int(), so the     *)
(* arithmetic below is binary64 arithmetic, bit for bit: a mantissa of 53  *)
(* bits held in limbs of 14 bits, correctly rounded (ties to even).        *)
(***************************************************************************)
EXTENDS Integers, Sequences, FiniteSets, TLC

(***************************************************************************)
(* Natural numbers of arbitrary size: little-endian sequences of limbs,    *)
(* no leading zero limb, <<>> is zero.                                     *)
(***************************************************************************)
LimbBits == 14

LimbBase == 2^LimbBits

RECURSIVE Strip(_)
Strip(X) ==
    IF X = <<>> THEN <<>>
    ELSE IF X[Len(X)] = 0 THEN Strip(SubSeq(X, 1, Len(X) - 1))
    ELSE X

RECURSIVE FromInt(_)
FromInt(n) ==
    IF n = 0 THEN <<>> ELSE <<n % LimbBase>> \o FromInt(n \div LimbBase)

RECURSIVE ToInt(_)
ToInt(X) ==
    IF X = <<>> THEN 0 ELSE X[1] + LimbBase * ToInt(Tail(X))

RECURSIVE MulSmall(_, _, _)
MulSmall(X, n, carry) ==
    IF X = <<>> THEN FromInt(carry)
    ELSE LET t == X[1] * n + carry
         IN  <<t % LimbBase>> \o MulSmall(Tail(X), n, t \div LimbBase)

RECURSIVE AddSmall(_, _)
AddSmall(X, c) ==
    IF c = 0 THEN X
    ELSE IF X = <<>> THEN FromInt(c)
    ELSE LET t == X[1] + c
         IN  <<t % LimbBase>> \o AddSmall(Tail(X), t \div LimbBase)

RECURSIVE CmpFrom(_, _, _)
CmpFrom(X, Y, i) ==
    IF i = 0 THEN 0
    ELSE IF X[i] > Y[i] THEN 1
    ELSE IF X[i] < Y[i] THEN -1
    ELSE CmpFrom(X, Y, i - 1)

Cmp(X, Y) ==
    IF Len(X) > Len(Y) THEN 1
    ELSE IF Len(X) < Len(Y) THEN -1
    ELSE CmpFrom(X, Y, Len(X))

RECURSIVE SubFrom(_, _, _, _)
SubFrom(X, Y, i, borrow) ==
    IF i > Len(X) THEN <<>>
    ELSE LET yi == IF i <= Len(Y) THEN Y[i] ELSE 0
             t  == X[i] - yi - borrow
         IN  IF t < 0 THEN <<t + LimbBase>> \o SubFrom(X, Y, i + 1, 1)
             ELSE <<t>> \o SubFrom(X, Y, i + 1, 0)

Sub(X, Y) == Strip(SubFrom(X, Y, 1, 0))

RECURSIVE DivSmallFrom(_, _, _, _)
DivSmallFrom(X, d, i, rem) ==
    IF i = 0 THEN <<rem>>
    ELSE DivSmallFrom(X, d, i - 1, (rem * LimbBase + X[i]) % d)
            \o <<(rem * LimbBase + X[i]) \div d>>

\* X \div d and X % d for a small d: the quotient limbs follow the remainder
\* in the result of DivSmallFrom
QuotRem(res) == [q |-> Strip(Tail(res)), r |-> res[1]]

DivSmall(X, d) == QuotRem(DivSmallFrom(X, d, Len(X), 0))

RECURSIVE BitLenInt(_)
BitLenInt(n) == IF n = 0 THEN 0 ELSE 1 + BitLenInt(n \div 2)

BitLen(X) ==
    IF X = <<>> THEN 0
    ELSE LimbBits * (Len(X) - 1) + BitLenInt(X[Len(X)])

IsOdd(X) == X # <<>> /\ X[1] % 2 = 1

Zeros(k) == [i \in 1..k |-> 0]

ShiftLeft(X, s) ==
    IF X = <<>> THEN <<>>
    ELSE Zeros(s \div LimbBits) \o MulSmall(X, 2^(s % LimbBits), 0)

\* the quotient d of the high limbs, and whether a bit was lost in the low
\* limbs or in the remainder
WithLost(d, low) ==
    [q |-> d.q, lost |-> (\E i \in 1..Len(low) : low[i] # 0) \/ d.r # 0]

\* X without its k low limbs, divided by 2^r
DropLimbs(X, k, r) ==
    IF k >= Len(X) THEN WithLost([q |-> <<>>, r |-> 0], X)
    ELSE WithLost(DivSmall(SubSeq(X, k + 1, Len(X)), 2^r), SubSeq(X, 1, k))

\* X \div 2^s, and whether any of the s bits shifted out was set.
ShiftBits(X, s) == DropLimbs(X, s \div LimbBits, s % LimbBits)

WithGuard(b, sticky) == [q |-> b.q, guard |-> b.lost, sticky |-> sticky]

RoundBit(a) == WithGuard(ShiftBits(a.q, 1), a.lost)

\* X \div 2^s with the round bit (bit s-1) and the sticky bit (bits below).
ShiftRight(X, s) ==
    IF s = 0 THEN [q |-> X, guard |-> FALSE, sticky |-> FALSE]
    ELSE RoundBit(ShiftBits(X, s - 1))

(***************************************************************************)
(* Positive binary64 values: [m, e] is m * 2^e, 2^52 <= m < 2^53.          *)
(***************************************************************************)
MantBits == 53

\* a mantissa that rounding has carried to 2^53 is 2^52 with the next exponent
Renormalize(m, e) ==
    IF BitLen(m) > MantBits THEN [m |-> ShiftBits(m, 1).q, e |-> e + 1]
    ELSE [m |-> m, e |-> e]

\* round to nearest, ties to even: up when the round bit is set and either a
\* lower bit is set or the mantissa is odd
RoundNearestEven(sh, e, inexact) ==
    IF sh.guard /\ (sh.sticky \/ inexact \/ IsOdd(sh.q))
    THEN Renormalize(AddSmall(sh.q, 1), e)
    ELSE [m |-> sh.q, e |-> e]

\* N * 2^e, N of L bits, as a binary64
RoundBits(N, e, inexact, L) ==
    IF L <= MantBits
    THEN [m |-> ShiftLeft(N, MantBits - L), e |-> e - (MantBits - L)]
    ELSE RoundNearestEven(ShiftRight(N, L - MantBits), e + (L - MantBits), inexact)

\* The binary64 nearest to N * 2^e (ties to even); inexact says that N is
\* itself a truncation of the value being rounded.
RoundToDouble(N, e, inexact) == RoundBits(N, e, inexact, BitLen(N))

\* the quotient d.q scaled by 2^e, inexact when there is a remainder
RoundQuotient(d, e) == RoundToDouble(d.q, e, d.r # 0)

\* a / b for two ints (Python true division, correctly rounded)
IntTrueDiv(a, b) ==
    RoundQuotient(DivSmall(ShiftLeft(FromInt(a), 5 * LimbBits), b),
                  0 - 5 * LimbBits)

\* n * x for an int n and a float x
FloatMul(n, x) == RoundToDouble(MulSmall(x.m, n, 0), x.e, FALSE)

\* one step of the long division by the mantissa M: r2 is twice the remainder
DivStep(r2, M) ==
    IF Cmp(r2, M) >= 0 THEN [bit |-> 1, r |-> Sub(r2, M)]
    ELSE [bit |-> 0, r |-> r2]

\* Long division by the mantissa M, rem < M: the next j quotient bits
\* after the bits d, and the remainder.
RECURSIVE DivBits(_, _, _, _)
RECURSIVE DivBitsNext(_, _, _, _)
DivBitsNext(st, M, j, d) ==
    IF st.bit = 1 THEN DivBits(st.r, M, j - 1, 2 * d + 1)
    ELSE DivBits(st.r, M, j - 1, 2 * d)

DivBits(rem, M, j, d) ==
    IF j = 0 THEN [d |-> d, r |-> rem]
    ELSE DivBitsNext(DivStep(MulSmall(rem, 2, 0), M), M, j, d)

AppendLimb(rest, limb) == [q |-> rest.q \o <<limb>>, r |-> rest.r]

\* The next c quotient limbs: rem * LimbBase^c \div M, and the remainder.
RECURSIVE DivLimbs(_, _, _)
RECURSIVE DivLimbsNext(_, _, _)
DivLimbsNext(s, M, c) ==
    IF s.r = <<>> THEN [q |-> Zeros(c - 1) \o <<s.d>>, r |-> <<>>]
    ELSE AppendLimb(DivLimbs(s.r, M, c - 1), s.d)

DivLimbs(rem, M, c) ==
    IF c = 0 THEN [q |-> <<>>, r |-> rem]
    ELSE DivLimbsNext(DivBits(rem, M, LimbBits, 0), M, c)

\* the quotient d.q scaled by 2^e, inexact when there is a remainder
RoundLongQuotient(d, e) == RoundToDouble(Strip(d.q), e, d.r # <<>>)

\* n / x for an int n and a float x
FloatDiv(n, x) ==
    RoundLongQuotient(DivLimbs(FromInt(n), x.m, 8), 0 - 8 * LimbBits - x.e)

\* x > y
FloatGT(x, y) ==
    \/ x.e > y.e
    \/ x.e = y.e /\ Cmp(x.m, y.m) > 0

\* the integer nearest to the shifted value, ties to even
RoundInt(sh) ==
    IF sh.guard /\ (sh.sticky \/ IsOdd(sh.q)) THEN ToInt(sh.q) + 1
    ELSE ToInt(sh.q)

\* round(x): nearest integer, ties to even
RoundHalfEven(x) ==
    IF x.e >= 0 THEN ToInt(ShiftLeft(x.m, x.e))
    ELSE RoundInt(ShiftRight(x.m, 0 - x.e))

\* mutant: the value is rounded to nearest instead of truncated
Trunc_Rounds(x) == RoundHalfEven(x)

\* int(x): truncation toward zero
Trunc(x) ==
    IF x.e >= 0 THEN ToInt(ShiftLeft(x.m, x.e))
    ELSE ToInt(ShiftBits(x.m, 0 - x.e).q)

(***************************************************************************)
(* Bounds of the model.                                                    *)
(***************************************************************************)
\* largest value of the retries argument of a direct generate_design call
MaxRetries == 3

\* largest number of fragments in one error text
MaxFragments == 2

\* largest width and height of a generated image
MaxImage == 3

\* largest source and target width and height of a direct resize_for_print call
MaxDim == 9

\* rows of a frame the trends provider answers with
MaxTopics == 3

\* the limit argument of get_trending_topics, the count of auto_generate
MaxLimit == 3

\* the design files there are
MaxPaths == 2

\* create_mockup: for _ in range(30)
PollLimit == 30

\* create_mockup: time.sleep(2)
PollInterval == 2

(***************************************************************************)
(* Configuration (design.py, CONFIGURATION) and defaults.                  *)
(***************************************************************************)
TSHIRT_WIDTH == 4500

TSHIRT_HEIGHT == 5400

\* generate_design(prompt, hf_token=None, retries=3)
DefaultRetries == 3

(***************************************************************************)
(* Images: size, colour mode, whether rembg has cut the background out,    *)
(* and the box <<x, y, w, h>> of the canvas that holds the content.        *)
(***************************************************************************)
Modes == {"RGB", "RGBA"}

NoImage == [width |-> 0, height |-> 0, mode |-> "none", bg |-> FALSE,
            box |-> <<0, 0, 0, 0>>]

GeneratedImages ==
    { [width |-> w, height |-> h, mode |-> m, bg |-> FALSE,
       box |-> <<0, 0, w, h>>] : w \in 1..MaxImage, h \in 1..MaxImage, m \in Modes }

(***************************************************************************)
(* resize_for_print                                                        *)
(***************************************************************************)
\* mutant: the canvas is allocated with width and height swapped
NewCanvas_Swapped(width, height) ==
    [width |-> height, height |-> width, mode |-> "RGBA", bg |-> FALSE,
     box |-> <<0, 0, 0, 0>>]

\* Image.new('RGBA', (width, height), (0, 0, 0, 0))
NewCanvas(width, height) ==
    [width |-> width, height |-> height, mode |-> "RGBA", bg |-> FALSE,
     box |-> <<0, 0, 0, 0>>]

\* mutant: the margin is not halved
CenterOffset_NotHalved(outer, inner) == outer - inner

\* (width - new_width) // 2
CenterOffset(outer, inner) == (outer - inner) \div 2

\* mutant: the comparison of the ratios is reversed
ScaleBy_Reversed(img_ratio, target_ratio, width, height) ==
    IF FloatGT(target_ratio, img_ratio)
    THEN [wider |-> TRUE, new_width |-> width,
          new_height |-> Trunc(FloatDiv(width, img_ratio))]
    ELSE [wider |-> FALSE, new_height |-> height,
          new_width |-> Trunc(FloatMul(height, img_ratio))]

\* if img_ratio > target_ratio: scale by width; else: scale by height
ScaleBy(img_ratio, target_ratio, width, height) ==
    IF FloatGT(img_ratio, target_ratio)
    THEN [wider |-> TRUE, new_width |-> width,
          new_height |-> Trunc(FloatDiv(width, img_ratio))]
    ELSE [wider |-> FALSE, new_height |-> height,
          new_width |-> Trunc(FloatMul(height, img_ratio))]

\* the scaled size: the branch taken and (new_width, new_height)
ScaledSize(img_w, img_h, width, height) ==
    ScaleBy(IntTrueDiv(img_w, img_h), IntTrueDiv(width, height), width, height)

\* canvas.paste(resized, (x, y)): the canvas keeps its size
Paste(canvas, resized, x, y) ==
    [canvas EXCEPT !.bg = resized.bg,
                   !.box = <<x, y, resized.width, resized.height>>]

\* image.resize((new_width, new_height), LANCZOS)
Resample(image, sz) ==
    [image EXCEPT !.width = sz.new_width, !.height = sz.new_height]

\* the locals of resize_for_print at its return
Locals(sz, x, y, canvas) ==
    [wider |-> sz.wider, new_width |-> sz.new_width,
     new_height |-> sz.new_height, x |-> x, y |-> y,
     degenerate |-> sz.new_width = 0 \/ sz.new_height = 0,
     canvas |-> canvas]

\* x, y and the paste, once the scaled size sz is known
Compose(resized, width, height, sz, x, y) ==
    Locals(sz, x, y, Paste(NewCanvas(width, height), resized, x, y))

Center(image, width, height, sz) ==
    Compose(Resample(image, sz), width, height, sz,
            CenterOffset(width, sz.new_width), CenterOffset(height, sz.new_height))

\* The locals of resize_for_print at its return.  Pillow's resize is given
\* (new_width, new_height); degenerate says that one of them is 0.
resize_for_print(image, width, height) ==
    Center(image, width, height,
           ScaledSize(image.width, image.height, width, height))

NoResize == [wider |-> FALSE, new_width |-> 0, new_height |-> 0, x |-> 0,
             y |-> 0, degenerate |-> FALSE, canvas |-> NoImage]

(***************************************************************************)
(* generate_design: the text of the exception raised by the endpoint.      *)
(* An error text is the set of the fragments it contains.                  *)
(***************************************************************************)
Fragments ==
    {"503", "Service Unavailable", "service unavailable", "429", "rate limit",
     "Rate Limit", "401", "unauthorized", "Unauthorized", "Connection reset"}

\* str.lower() on a fragment
LowerOf(f) ==
    CASE f = "Service Unavailable" -> "service unavailable"
      [] f = "Rate Limit"          -> "rate limit"
      [] f = "Unauthorized"        -> "unauthorized"
      [] f = "Connection reset"    -> "connection reset"
      [] OTHER                     -> f

\* error_msg.lower()
Lower(error_msg) == {LowerOf(f) : f \in error_msg}

\* needle in error_msg
Contains(error_msg, needle) == needle \in error_msg

ErrorTexts ==
    {m \in SUBSET Fragments : Cardinality(m) >= 1 /\ Cardinality(m) <= MaxFragments}

\* "503" in error_msg or "Service Unavailable" in error_msg
Is503(error_msg) ==
    Contains(error_msg, "503") \/ Contains(error_msg, "Service Unavailable")

\* "429" in error_msg or "rate limit" in error_msg.lower()
Is429(error_msg) ==
    Contains(error_msg, "429") \/ Contains(Lower(error_msg), "rate limit")

\* "401" in error_msg or "unauthorized" in error_msg.lower()
Is401(error_msg) ==
    Contains(error_msg, "401") \/ Contains(Lower(error_msg), "unauthorized")

\* mutant: the backoff doubles with each attempt
On503_Exponential(attempt) ==
    [sleeps |-> <<60 * 2^attempt>>, return |-> FALSE]

\* wait_time = 60 * (attempt + 1); time.sleep(wait_time)
On503(attempt) ==
    [sleeps |-> <<60 * (attempt + 1)>>, return |-> FALSE]

\* mutant: the rate-limit wait grows with the attempt number
On429_Linear(attempt) ==
    [sleeps |-> <<60 * (attempt + 1)>>, return |-> FALSE]

\* wait_time = 60; time.sleep(wait_time), at any attempt
On429(attempt) ==
    [sleeps |-> <<60>>, return |-> FALSE]

\* return None
On401 == [sleeps |-> <<>>, return |-> TRUE]

\* mutant: the sleep is not skipped after the last attempt
OnOther_AlwaysSleeps(attempt, retries) ==
    [sleeps |-> <<10>>, return |-> FALSE]

\* if attempt < retries - 1: time.sleep(10)
OnOther(attempt, retries) ==
    IF attempt < retries - 1
    THEN [sleeps |-> <<10>>, return |-> FALSE]
    ELSE [sleeps |-> <<>>, return |-> FALSE]

\* mutant: every class of error skips its sleep after the last attempt
ExceptHandler_QuietOnLast(error_msg, attempt, retries) ==
    IF Is503(error_msg) /\ attempt < retries - 1 THEN On503(attempt)
    ELSE IF Is503(error_msg) THEN [sleeps |-> <<>>, return |-> FALSE]
    ELSE IF Is429(error_msg) /\ attempt < retries - 1 THEN On429(attempt)
    ELSE IF Is429(error_msg) THEN [sleeps |-> <<>>, return |-> FALSE]
    ELSE IF Is401(error_msg) THEN On401
    ELSE OnOther(attempt, retries)

\* The except block of attempt number `attempt` (0-based): the sleeps it
\* performs and whether it returns None.
ExceptHandler(error_msg, attempt, retries) ==
    IF Is503(error_msg) THEN On503(attempt)
    ELSE IF Is429(error_msg) THEN On429(attempt)
    ELSE IF Is401(error_msg) THEN On401
    ELSE OnOther(attempt, retries)

\* mutant: one iteration too many
LoopContinues_OffByOne(attempt, retries) == attempt <= retries

\* for attempt in range(retries): is there another iteration
LoopContinues(attempt, retries) == attempt < retries

(***************************************************************************)
(* State                                                                   *)
(***************************************************************************)
VARIABLES
    entry,        \* the function called, by its name
    retries,      \* generate_design: the retries argument
    attempt,      \* generate_design: the loop variable (0-based)
    gd_pc,        \* generate_design: "idle", "loop" or "returned"
    gd_result,    \* generate_design: "pending", "image" or "None"
    log,          \* generate_design: the calls to the endpoint and the sleeps, in order
    image,        \* the bitmap in hand (generate_design's result, process_trend's local)
    remove_bg,    \* process_trend: argument
    resize,       \* process_trend: argument
    pt_pc,        \* process_trend: "idle", "generate", "remove_bg", "resize", "save", "returned", "raised"
    bg_failed,    \* process_trend: remove_background raised
    generated,    \* process_trend: the image generate_design returned
    saved,        \* process_trend: the image written to output_path
    pt_result,    \* process_trend: "pending", "path" or "None"
    rz_pc,        \* resize_for_print: "idle", "call", "returned" or "raised"
    rz_image,     \* resize_for_print: argument
    rz_width,     \* resize_for_print: argument
    rz_height,    \* resize_for_print: argument
    rz,           \* resize_for_print: its locals at the return
    region,       \* get_trending_topics: argument
    timeframe,    \* get_trending_topics: argument
    limit,        \* get_trending_topics: argument
    tr_pc,        \* get_trending_topics: "idle", "construct", "trending", "realtime", "returned", "raised"
    tr_failed,    \* get_trending_topics: the provider step that raised, or "none"
    tr_result,    \* get_trending_topics: the list returned
    ag_pc,        \* auto_generate: "idle", "fetch", "loop", "returned", "raised"
    ag_i,         \* auto_generate: the loop variable i (1-based), 0 before the loop
    ag_generated, \* auto_generate: the list generated
    ag_log,       \* auto_generate: the items processed and the sleeps, in order
    env,          \* os.environ: the credential variables that are set
    api_key,      \* a sink called directly: the credential argument is given
    on_disk,      \* the paths that exist as files
    design_paths, \* upload_designs, upload_designs_to_printful: argument (files, image_path, design_file of the other sinks)
    method,       \* upload_designs: argument
    sink_pc,      \* the position in the sink running, "idle", "returned" or "raised"
    sink_i,       \* the position of the loop over the paths (1-based)
    results,      \* upload_designs: results['uploaded'] and results['failed']
    uploaded,     \* create_github_release: its local list uploaded
    products,     \* upload_designs_to_printful: its local list products
    fn_result,    \* a sink called directly: "pending", or what it returned
    sink_error,   \* the exception that left the entry point, or "none"
    requests,     \* the remote requests issued, in order
    opened,       \* the files opened, in order
    polls,        \* create_mockup: status requests made
    slept,        \* create_mockup: seconds slept in the polling loop
    task_status   \* create_mockup: what the last status request reported

gd_vars == <<retries, attempt, gd_pc, gd_result, log>>

pt_vars == <<remove_bg, resize, pt_pc, bg_failed, generated, saved, pt_result>>

rz_vars == <<rz_pc, rz_image, rz_width, rz_height, rz>>

tr_vars == <<region, timeframe, limit, tr_pc, tr_failed, tr_result>>

ag_vars == <<ag_pc, ag_i, ag_generated, ag_log>>

sink_args == <<env, api_key, on_disk, design_paths, method>>

sink_vars == <<sink_args, sink_pc, sink_i, results, uploaded, products,
               fn_result, sink_error, requests, opened, polls, slept,
               task_status>>

\* the state of the functions outside the design of one image
other_vars == <<tr_vars, ag_vars, sink_vars>>

vars == <<entry, retries, attempt, gd_pc, gd_result, log, image, remove_bg,
          resize, pt_pc, bg_failed, generated, saved, pt_result, rz_pc,
          rz_image, rz_width, rz_height, rz, other_vars>>

\* The classes of error text the properties speak of, read off the text
\* itself: service unavailable, rate limited, unauthorized.
MentionsUnavailable(text) ==
    "503" \in text \/ "Service Unavailable" \in text

MentionsRateLimit(text) ==
    "429" \in text \/ "rate limit" \in text \/ "Rate Limit" \in text

MentionsUnauthorized(text) ==
    "401" \in text \/ "unauthorized" \in text \/ "Unauthorized" \in text

\* One entry of the log: a call to the endpoint, its outcome and what the
\* text of its error mentions.  k is the attempt number, 1-based.
CallEvent(k, ok, error_msg) ==
    [type |-> "call", k |-> k, ok |-> ok,
     su |-> ~ok /\ MentionsUnavailable(error_msg),
     rl |-> ~ok /\ MentionsRateLimit(error_msg),
     un |-> ~ok /\ MentionsUnauthorized(error_msg), secs |-> 0]

SleepEvent(k, secs) ==
    [type |-> "sleep", k |-> k, ok |-> FALSE, su |-> FALSE, rl |-> FALSE,
     un |-> FALSE, secs |-> secs]

SleepEvents(k, sleeps) == [i \in 1..Len(sleeps) |-> SleepEvent(k, sleeps[i])]

GdIdle ==
    /\ retries = 0
    /\ attempt = 0
    /\ gd_pc = "idle"
    /\ gd_result = "pending"
    /\ log = <<>>

PtIdle ==
    /\ remove_bg = FALSE
    /\ resize = FALSE
    /\ pt_pc = "idle"
    /\ bg_failed = FALSE
    /\ generated = NoImage
    /\ saved = NoImage
    /\ pt_result = "pending"

RzIdle ==
    /\ rz_pc = "idle"
    /\ rz_image = NoImage
    /\ rz_width = 0
    /\ rz_height = 0
    /\ rz = NoResize

TrIdle ==
    /\ region = "US"
    /\ timeframe = "now 1-H"
    /\ limit = 0
    /\ tr_pc = "idle"
    /\ tr_failed = "none"
    /\ tr_result = <<>>

AgIdle ==
    /\ ag_pc = "idle"
    /\ ag_i = 0
    /\ ag_generated = <<>>
    /\ ag_log = <<>>

SinkIdle ==
    /\ env = {}
    /\ api_key = FALSE
    /\ on_disk = {}
    /\ design_paths = <<>>
    /\ method = "github"
    /\ sink_pc = "idle"
    /\ sink_i = 0
    /\ results = [uploaded |-> <<>>, failed |-> <<>>]
    /\ uploaded = <<>>
    /\ products = <<>>
    /\ fn_result = "pending"
    /\ sink_error = "none"
    /\ requests = <<>>
    /\ opened = <<>>
    /\ polls = 0
    /\ slept = 0
    /\ task_status = "none"

\* no function outside the design of one image is running
OtherIdle == TrIdle /\ AgIdle /\ SinkIdle

(***************************************************************************)
(* generate_design(prompt, hf_token, retries)                              *)
(***************************************************************************)
\* a direct call with any retries
InitGenerateDesign ==
    /\ entry = "generate_design"
    /\ retries \in 0..MaxRetries
    /\ attempt = 0
    /\ gd_pc = "loop"
    /\ gd_result = "pending"
    /\ log = <<>>
    /\ image = NoImage
    /\ PtIdle
    /\ RzIdle
    /\ OtherIdle

\* client.text_to_image returns an image: return image
AttemptSucceeds ==
    /\ gd_pc = "loop"
    /\ LoopContinues(attempt, retries)
    /\ \E img \in GeneratedImages :
          /\ image' = img
          /\ log' = Append(log, CallEvent(attempt + 1, TRUE, {}))
    /\ gd_result' = "image"
    /\ gd_pc' = "returned"
    /\ UNCHANGED <<entry, retries, attempt>>
    /\ UNCHANGED pt_vars
    /\ UNCHANGED rz_vars
    /\ UNCHANGED other_vars

\* client.text_to_image raises: the except block
AttemptFails ==
    /\ gd_pc = "loop"
    /\ LoopContinues(attempt, retries)
    /\ \E error_msg \in ErrorTexts :
          \E h \in {ExceptHandler(error_msg, attempt, retries)} :
              /\ log' = Append(log, CallEvent(attempt + 1, FALSE, error_msg))
                           \o SleepEvents(attempt + 1, h.sleeps)
              /\ IF h.return
                 THEN /\ gd_result' = "None"
                      /\ gd_pc' = "returned"
                      /\ attempt' = attempt
                 ELSE /\ gd_result' = gd_result
                      /\ gd_pc' = gd_pc
                      /\ attempt' = attempt + 1
    /\ UNCHANGED <<entry, retries, image>>
    /\ UNCHANGED pt_vars
    /\ UNCHANGED rz_vars
    /\ UNCHANGED other_vars

\* the loop is exhausted: "All retries failed", return None
RetriesExhausted ==
    /\ gd_pc = "loop"
    /\ ~LoopContinues(attempt, retries)
    /\ gd_result' = "None"
    /\ gd_pc' = "returned"
    /\ UNCHANGED <<entry, retries, attempt, log, image>>
    /\ UNCHANGED pt_vars
    /\ UNCHANGED rz_vars
    /\ UNCHANGED other_vars

(***************************************************************************)
(* process_trend(trend, style, remove_bg, resize, hf_token)                *)
(***************************************************************************)
InitProcessTrend ==
    /\ entry = "process_trend"
    /\ retries = DefaultRetries
    /\ attempt = 0
    /\ gd_pc = "loop"
    /\ gd_result = "pending"
    /\ log = <<>>
    /\ image = NoImage
    /\ remove_bg \in BOOLEAN
    /\ resize \in BOOLEAN
    /\ pt_pc = "generate"
    /\ bg_failed = FALSE
    /\ generated = NoImage
    /\ saved = NoImage
    /\ pt_result = "pending"
    /\ RzIdle
    /\ OtherIdle

\* image = generate_design(prompt, hf_token); if image is None: return None
GenerationReturns ==
    /\ pt_pc = "generate"
    /\ gd_pc = "returned"
    /\ IF gd_result = "None"
       THEN /\ pt_result' = "None"
            /\ pt_pc' = "returned"
            /\ generated' = generated
       ELSE /\ pt_result' = pt_result
            /\ pt_pc' = "remove_bg"
            /\ generated' = image
    /\ UNCHANGED <<entry, image, remove_bg, resize, bg_failed, saved>>
    /\ UNCHANGED gd_vars
    /\ UNCHANGED rz_vars
    /\ UNCHANGED other_vars

\* remove_background(image): rembg's output, same size, with an alpha channel
remove_background(img) == [img EXCEPT !.mode = "RGBA", !.bg = TRUE]

\* mutant: the exception of remove_background ends process_trend
BackgroundRemovalFailed_Aborts(img) ==
    [image |-> img, bg_failed |-> TRUE, pc |-> "returned", result |-> "None"]

\* what process_trend does with an exception of remove_background
BackgroundRemovalFailed(img) ==
    [image |-> img, bg_failed |-> TRUE, pc |-> "resize", result |-> "pending"]

\* if remove_bg: not requested
BackgroundKept ==
    /\ pt_pc = "remove_bg"
    /\ ~remove_bg
    /\ pt_pc' = "resize"
    /\ UNCHANGED <<entry, image, remove_bg, resize, bg_failed, generated, saved,
                   pt_result>>
    /\ UNCHANGED gd_vars
    /\ UNCHANGED rz_vars
    /\ UNCHANGED other_vars

\* if remove_bg: image = remove_background(image)
BackgroundRemoved ==
    /\ pt_pc = "remove_bg"
    /\ remove_bg
    /\ image' = remove_background(image)
    /\ pt_pc' = "resize"
    /\ UNCHANGED <<entry, remove_bg, resize, bg_failed, generated, saved, pt_result>>
    /\ UNCHANGED gd_vars
    /\ UNCHANGED rz_vars
    /\ UNCHANGED other_vars

\* if remove_bg: remove_background raises; except Exception: continue
BackgroundRemovalRaises ==
    /\ pt_pc = "remove_bg"
    /\ remove_bg
    /\ \E h \in {BackgroundRemovalFailed(image)} :
           /\ image' = h.image
           /\ bg_failed' = h.bg_failed
           /\ pt_pc' = h.pc
           /\ pt_result' = h.result
    /\ UNCHANGED <<entry, remove_bg, resize, generated, saved>>
    /\ UNCHANGED gd_vars
    /\ UNCHANGED rz_vars
    /\ UNCHANGED other_vars

\* image.convert('RGBA')
ConvertRGBA(img) == [img EXCEPT !.mode = "RGBA"]

\* if image.mode != 'RGBA': image = image.convert('RGBA')
EnsureRGBA(img) == IF img.mode # "RGBA" THEN ConvertRGBA(img) ELSE img

\* Pillow's resize on the size it is given: it returns, or rejects a size of 0
PillowOutcomes(r) ==
    IF r.degenerate THEN {"returned", "raised"} ELSE {"returned"}

\* if resize: image = resize_for_print(image), with the default size
ResizeStep ==
    /\ pt_pc = "resize"
    /\ IF resize
       THEN \E r \in {resize_for_print(EnsureRGBA(image), TSHIRT_WIDTH, TSHIRT_HEIGHT)} :
               \E outcome \in PillowOutcomes(r) :
                  IF outcome = "raised"
                  THEN /\ pt_pc' = "raised"
                       /\ image' = image
                  ELSE /\ pt_pc' = "save"
                       /\ image' = r.canvas
       ELSE /\ pt_pc' = "save"
            /\ image' = image
    /\ UNCHANGED <<entry, remove_bg, resize, bg_failed, generated, saved, pt_result>>
    /\ UNCHANGED gd_vars
    /\ UNCHANGED rz_vars
    /\ UNCHANGED other_vars

\* image.save(output_path, 'PNG', optimize=True); return str(output_path)
Save ==
    /\ pt_pc = "save"
    /\ saved' = image
    /\ pt_result' = "path"
    /\ pt_pc' = "returned"
    /\ UNCHANGED <<entry, image, remove_bg, resize, bg_failed, generated>>
    /\ UNCHANGED gd_vars
    /\ UNCHANGED rz_vars
    /\ UNCHANGED other_vars

Init == InitGenerateDesign \/ InitProcessTrend

Next ==
    \/ AttemptSucceeds
    \/ AttemptFails
    \/ RetriesExhausted
    \/ GenerationReturns
    \/ BackgroundKept
    \/ BackgroundRemoved
    \/ BackgroundRemovalRaises
    \/ ResizeStep
    \/ Save

Spec == Init /\ [][Next]_vars

(***************************************************************************)
(* resize_for_print(image, width, height) called on any image and size     *)
(***************************************************************************)
InitResize ==
    /\ entry = "resize_for_print"
    /\ GdIdle
    /\ image = NoImage
    /\ PtIdle
    /\ rz_pc = "call"
    /\ \E w \in 1..MaxDim, h \in 1..MaxDim :
          rz_image = [width |-> w, height |-> h, mode |-> "RGBA", bg |-> FALSE,
                      box |-> <<0, 0, w, h>>]
    /\ rz_width \in 1..MaxDim
    /\ rz_height \in 1..MaxDim
    /\ rz = NoResize
    /\ OtherIdle

\* The function runs to its return, or, when new_width or new_height is 0
\* and Pillow's resize rejects the size, the exception leaves it.
ResizeCall ==
    /\ rz_pc = "call"
    /\ rz' = resize_for_print(rz_image, rz_width, rz_height)
    /\ rz_pc' \in PillowOutcomes(rz')
    /\ UNCHANGED <<entry, image, rz_image, rz_width, rz_height>>
    /\ UNCHANGED gd_vars
    /\ UNCHANGED pt_vars
    /\ UNCHANGED other_vars

NextResize == ResizeCall

SpecResize == InitResize /\ [][NextResize]_vars


(***************************************************************************)
(* Both entry points that produce a print canvas                           *)
(***************************************************************************)
InitPrint == Init \/ InitResize

NextPrint == Next \/ NextResize

SpecPrint == InitPrint /\ [][NextPrint]_vars

(***************************************************************************)
(* get_trending_topics(region, timeframe, limit)                           *)
(***************************************************************************)
Regions == {"US", "GB"}

Timeframes == {"now 1-H", "now 7-d"}

\* the frames the provider can answer with: 0..MaxTopics rows
Frames == {[j \in 1..n |-> "topic " \o ToString(j)] : n \in 0..MaxTopics}

\* fallback = [...]
FallbackQueries ==
    <<"AI Generated Art", "Viral Memes 2024", "Trending Now", "Just Vibing",
      "No Cap">>

\* [{"query": t, "value": 100 - i*step} for i, t in enumerate(topics)]
Ranked(topics, step) ==
    [j \in 1..Len(topics) |->
        [query |-> topics[j], value |-> 100 - (j - 1) * step]]

\* frame.head(limit), limit >= 0
HeadRows(frame, n) == SubSeq(frame, 1, IF n < Len(frame) THEN n ELSE Len(frame))

\* return [... for i, t in enumerate(topics)] of the try block
FromProvider(frame, n) == Ranked(HeadRows(frame, n), 5)

\* return [... for i, t in enumerate(fallback)] of the except block
Fallback == Ranked(FallbackQueries, 10)

\* a direct call
InitTrends ==
    /\ entry = "get_trending_topics"
    /\ region \in Regions
    /\ timeframe \in Timeframes
    /\ limit \in 0..MaxLimit
    /\ tr_pc = "construct"
    /\ tr_failed = "none"
    /\ tr_result = <<>>
    /\ GdIdle
    /\ image = NoImage
    /\ PtIdle
    /\ RzIdle
    /\ AgIdle
    /\ SinkIdle

\* pytrends = TrendReq(...) returns the client
TrendReqConstructed ==
    /\ tr_pc = "construct"
    /\ tr_pc' = "trending"
    /\ UNCHANGED <<entry, image, region, timeframe, limit, tr_failed, tr_result>>
    /\ UNCHANGED <<gd_vars, pt_vars, rz_vars, ag_vars>>
    /\ UNCHANGED sink_vars

\* pytrends = TrendReq(...) raises: the statement stands before the try, so
\* the exception leaves get_trending_topics, and auto_generate when it is
\* the caller
TrendReqRaises ==
    /\ tr_pc = "construct"
    /\ tr_pc' = "raised"
    /\ tr_failed' = "TrendReq"
    /\ ag_pc' = IF ag_pc = "fetch" THEN "raised" ELSE ag_pc
    /\ UNCHANGED <<entry, image, region, timeframe, limit, tr_result>>
    /\ UNCHANGED <<gd_vars, pt_vars, rz_vars, ag_i, ag_generated, ag_log>>
    /\ UNCHANGED sink_vars

\* trending = pytrends.trending_searches(...): an empty frame goes on to the
\* realtime searches, any other is returned
TrendingSearches ==
    /\ tr_pc = "trending"
    /\ \E trending \in Frames :
          IF trending = <<>>
          THEN /\ tr_pc' = "realtime"
               /\ tr_result' = tr_result
          ELSE /\ tr_pc' = "returned"
               /\ tr_result' = FromProvider(trending, limit)
    /\ UNCHANGED <<entry, image, region, timeframe, limit, tr_failed>>
    /\ UNCHANGED <<gd_vars, pt_vars, rz_vars, ag_vars>>
    /\ UNCHANGED sink_vars

\* pytrends.trending_searches(...) raises: except Exception, the fallback
TrendingSearchesRaises ==
    /\ tr_pc = "trending"
    /\ tr_failed' = "trending_searches"
    /\ tr_pc' = "returned"
    /\ tr_result' = Fallback
    /\ UNCHANGED <<entry, image, region, timeframe, limit>>
    /\ UNCHANGED <<gd_vars, pt_vars, rz_vars, ag_vars>>
    /\ UNCHANGED sink_vars

\* trending = pytrends.realtime_trending_searches(...): a frame with rows is
\* returned, an empty one leaves the try and reaches the final return []
RealtimeTrending ==
    /\ tr_pc = "realtime"
    /\ \E trending \in Frames :
          tr_result' = IF trending # <<>> THEN FromProvider(trending, limit)
                       ELSE <<>>
    /\ tr_pc' = "returned"
    /\ UNCHANGED <<entry, image, region, timeframe, limit, tr_failed>>
    /\ UNCHANGED <<gd_vars, pt_vars, rz_vars, ag_vars>>
    /\ UNCHANGED sink_vars

\* pytrends.realtime_trending_searches(...) raises: the fallback
RealtimeTrendingRaises ==
    /\ tr_pc = "realtime"
    /\ tr_failed' = "realtime_trending_searches"
    /\ tr_pc' = "returned"
    /\ tr_result' = Fallback
    /\ UNCHANGED <<entry, image, region, timeframe, limit>>
    /\ UNCHANGED <<gd_vars, pt_vars, rz_vars, ag_vars>>
    /\ UNCHANGED sink_vars

(***************************************************************************)
(* auto_generate(count, style, region, hf_token)                           *)
(***************************************************************************)
\* how a call of process_trend can end: the path of the file, None, or an
\* exception (of the resize or of the save)
ProcessTrendOutcomes == {"path", "None", "raised"}

ItemEvent(i, query, out) ==
    [type |-> "item", i |-> i, query |-> query, out |-> out, secs |-> 0]

DelayEvent(i, secs) ==
    [type |-> "sleep", i |-> i, query |-> "", out |-> "", secs |-> secs]

DelayEvents(i, sleeps) == [j \in 1..Len(sleeps) |-> DelayEvent(i, sleeps[j])]

\* The rest of the loop body after process_trend: the except block ends
\* the iteration with continue; otherwise if i < len(trends): time.sleep(10)
InterItemDelay(out, i, n) ==
    IF out = "raised" THEN <<>>
    ELSE IF i < n THEN <<10>>
    ELSE <<>>

\* if output: generated.append(output)
Collect(gen, out, query) == IF out = "path" THEN Append(gen, query) ELSE gen

\* trends = get_trending_topics(region=region, limit=count)
InitAutoGenerate ==
    /\ entry = "auto_generate"
    /\ region \in Regions
    /\ timeframe = "now 1-H"
    /\ limit \in 0..MaxLimit
    /\ tr_pc = "construct"
    /\ tr_failed = "none"
    /\ tr_result = <<>>
    /\ ag_pc = "fetch"
    /\ ag_i = 0
    /\ ag_generated = <<>>
    /\ ag_log = <<>>
    /\ GdIdle
    /\ image = NoImage
    /\ PtIdle
    /\ RzIdle
    /\ SinkIdle

\* get_trending_topics returned; if not trends: return []
TrendsFetched ==
    /\ ag_pc = "fetch"
    /\ tr_pc = "returned"
    /\ IF tr_result = <<>>
       THEN /\ ag_pc' = "returned"
            /\ ag_i' = ag_i
       ELSE /\ ag_pc' = "loop"
            /\ ag_i' = 1
    /\ UNCHANGED <<entry, image, ag_generated, ag_log>>
    /\ UNCHANGED <<gd_vars, pt_vars, rz_vars, tr_vars>>
    /\ UNCHANGED sink_vars

\* one iteration of for i, trend_data in enumerate(trends, 1)
GenerateItem ==
    /\ ag_pc = "loop"
    /\ ag_i <= Len(tr_result)
    /\ \E out \in ProcessTrendOutcomes :
          /\ ag_log' = Append(ag_log, ItemEvent(ag_i, tr_result[ag_i].query, out))
                          \o DelayEvents(ag_i, InterItemDelay(out, ag_i, Len(tr_result)))
          /\ ag_generated' = Collect(ag_generated, out, tr_result[ag_i].query)
    /\ ag_i' = ag_i + 1
    /\ UNCHANGED <<entry, image, ag_pc>>
    /\ UNCHANGED <<gd_vars, pt_vars, rz_vars, tr_vars>>
    /\ UNCHANGED sink_vars

\* the loop is over: return generated
GenerationComplete ==
    /\ ag_pc = "loop"
    /\ ag_i > Len(tr_result)
    /\ ag_pc' = "returned"
    /\ UNCHANGED <<entry, image, ag_i, ag_generated, ag_log>>
    /\ UNCHANGED <<gd_vars, pt_vars, rz_vars, tr_vars>>
    /\ UNCHANGED sink_vars

InitTrending == InitTrends \/ InitAutoGenerate

NextTrending ==
    \/ TrendReqConstructed
    \/ TrendReqRaises
    \/ TrendingSearches
    \/ TrendingSearchesRaises
    \/ RealtimeTrending
    \/ RealtimeTrendingRaises
    \/ TrendsFetched
    \/ GenerateItem
    \/ GenerationComplete

SpecTrending == InitTrending /\ [][NextTrending]_vars

(***************************************************************************)
(* Distribution sinks: what they share                                     *)
(***************************************************************************)
Paths == {"design_" \o ToString(j) \o ".png" : j \in 1..MaxPaths}

\* the lists of distinct paths
PathLists ==
    UNION {{q \in [1..n -> Paths] : \A a, b \in 1..n : q[a] = q[b] => a = b} :
           n \in 0..MaxPaths}

\* the elements of a list
Range(q) == {q[j] : j \in DOMAIN q}

\* mutant: the credential is not looked at
Credential_Unchecked(given, environ, name) == TRUE

\* api_key = api_key or os.environ.get(name); if not api_key: is there one
Credential(given, environ, name) == given \/ name \in environ

\* one remote request: the service, the file it carries and whether the
\* service accepted it
Request(to, path, ok) == [to |-> to, path |-> path, ok |-> ok]

\* everything but the sinks
pipeline_vars == <<entry, image, gd_vars, pt_vars, rz_vars, tr_vars, ag_vars>>

PipelineIdle ==
    /\ GdIdle
    /\ image = NoImage
    /\ PtIdle
    /\ RzIdle
    /\ TrIdle
    /\ AgIdle

\* the locals of a sink before it runs
SinkLocals ==
    /\ results = [uploaded |-> <<>>, failed |-> <<>>]
    /\ uploaded = <<>>
    /\ products = <<>>
    /\ fn_result = "pending"
    /\ sink_error = "none"
    /\ requests = <<>>
    /\ opened = <<>>
    /\ polls = 0
    /\ slept = 0
    /\ task_status = "none"

(***************************************************************************)
(* upload_to_imgbb(image_path, api_key)                                    *)
(***************************************************************************)
\* what the POST to ImgBB can give: success, a reply without success, or an
\* exception (HTTP error status, timeout, connection error)
ImgbbReplies == {"success", "no success", "error"}

\* a direct call
InitImgbb ==
    /\ entry = "upload_to_imgbb"
    /\ env \in SUBSET {"IMGBB_API_KEY"}
    /\ api_key \in BOOLEAN
    /\ on_disk \in SUBSET Paths
    /\ design_paths \in {q \in PathLists : Len(q) = 1}
    /\ method = "imgbb"
    /\ sink_pc = "imgbb"
    /\ sink_i = 1
    /\ SinkLocals
    /\ PipelineIdle

\* upload_to_imgbb returns result: to its caller when called directly, to
\* the loop of upload_designs otherwise (if result: results['uploaded']
\* .append(...) else: results['failed'].append(path))
ImgbbReturns(path, result) ==
    IF entry = "upload_to_imgbb"
    THEN /\ fn_result' = result
         /\ sink_pc' = "returned"
         /\ UNCHANGED <<sink_i, results>>
    ELSE /\ results' = IF result = "dict"
                       THEN [results EXCEPT !.uploaded = Append(@, path)]
                       ELSE [results EXCEPT !.failed = Append(@, path)]
         /\ sink_i' = sink_i + 1
         /\ UNCHANGED <<fn_result, sink_pc>>

\* upload_to_imgbb(path): one call, from the credential test to the return
UploadToImgbb ==
    /\ sink_pc = "imgbb"
    /\ sink_i <= Len(design_paths)
    /\ \E path \in {design_paths[sink_i]} :
          \/ /\ ~Credential(api_key, env, "IMGBB_API_KEY")
             /\ ImgbbReturns(path, "None")
             /\ UNCHANGED <<requests, opened, sink_error>>
          \/ /\ Credential(api_key, env, "IMGBB_API_KEY")
             /\ path \notin on_disk
             /\ sink_pc' = "raised"
             /\ sink_error' = "FileNotFoundError"
             /\ UNCHANGED <<requests, opened, sink_i, results, fn_result>>
          \/ /\ Credential(api_key, env, "IMGBB_API_KEY")
             /\ path \in on_disk
             /\ opened' = Append(opened, path)
             /\ \E reply \in ImgbbReplies :
                   /\ requests' = Append(requests,
                                         Request("imgbb", path, reply = "success"))
                   /\ ImgbbReturns(path, IF reply = "success" THEN "dict"
                                         ELSE "None")
             /\ UNCHANGED sink_error
    /\ UNCHANGED <<sink_args, uploaded, products, polls, slept, task_status>>
    /\ UNCHANGED pipeline_vars

(***************************************************************************)
(* create_github_release(repo, tag, files, token, title, body)             *)
(***************************************************************************)
\* a direct call
InitRelease ==
    /\ entry = "create_github_release"
    /\ env \in SUBSET {"GITHUB_TOKEN"}
    /\ api_key \in BOOLEAN
    /\ on_disk \in SUBSET Paths
    /\ design_paths \in PathLists
    /\ method = "github"
    /\ sink_pc = "release"
    /\ sink_i = 1
    /\ SinkLocals
    /\ PipelineIdle

\* The end of upload_designs for method github: if release:
\* results['uploaded'] = release['files'] else: results['failed'] =
\* design_paths.  release is "None" or the list release['files'].
GithubResults(release, files) ==
    IF release = "None" THEN [uploaded |-> <<>>, failed |-> files]
    ELSE [uploaded |-> release, failed |-> <<>>]

\* create_github_release returns release: to its caller when called
\* directly, to upload_designs otherwise, which goes on to its return
ReleaseReturns(release) ==
    /\ sink_pc' = "returned"
    /\ IF entry = "create_github_release"
       THEN /\ fn_result' = IF release = "None" THEN "None" ELSE "dict"
            /\ UNCHANGED results
       ELSE /\ results' = GithubResults(release, design_paths)
            /\ UNCHANGED fn_result

\* what the POST that creates the release can give
ReleaseReplies == {"created", "error"}

\* what the POST of one file can give: status 200 or 201, another status,
\* or an exception (timeout, connection error)
AssetReplies == {"created", "rejected", "error"}

\* the credential test and the POST that creates the release
CreateRelease ==
    /\ sink_pc = "release"
    /\ \/ /\ ~Credential(api_key, env, "GITHUB_TOKEN")
          /\ ReleaseReturns("None")
          /\ UNCHANGED requests
       \/ /\ Credential(api_key, env, "GITHUB_TOKEN")
          /\ requests' = Append(requests, Request("github release", "", FALSE))
          /\ ReleaseReturns("None")
       \/ /\ Credential(api_key, env, "GITHUB_TOKEN")
          /\ requests' = Append(requests, Request("github release", "", TRUE))
          /\ sink_pc' = "assets"
          /\ UNCHANGED <<results, fn_result>>
    /\ UNCHANGED <<sink_args, sink_i, uploaded, products, sink_error, opened,
                   polls, slept, task_status>>
    /\ UNCHANGED pipeline_vars

\* one iteration of for file_path in files
UploadAsset ==
    /\ sink_pc = "assets"
    /\ sink_i <= Len(design_paths)
    /\ \E file_path \in {design_paths[sink_i]} :
          \/ /\ file_path \notin on_disk
             /\ sink_i' = sink_i + 1
             /\ UNCHANGED <<requests, opened, uploaded, sink_pc, results,
                            fn_result>>
          \/ /\ file_path \in on_disk
             /\ opened' = Append(opened, file_path)
             /\ \E reply \in AssetReplies :
                   /\ requests' = Append(requests,
                                         Request("github asset", file_path,
                                                 reply = "created"))
                   /\ IF reply = "error"
                      THEN /\ ReleaseReturns("None")
                           /\ UNCHANGED <<sink_i, uploaded>>
                      ELSE /\ uploaded' = IF reply = "created"
                                          THEN Append(uploaded, file_path)
                                          ELSE uploaded
                           /\ sink_i' = sink_i + 1
                           /\ UNCHANGED <<sink_pc, results, fn_result>>
    /\ UNCHANGED <<sink_args, products, sink_error, polls, slept, task_status>>
    /\ UNCHANGED pipeline_vars

\* the loop over the files is over: return {..., 'files': uploaded}
ReleaseComplete ==
    /\ sink_pc = "assets"
    /\ sink_i > Len(design_paths)
    /\ ReleaseReturns(uploaded)
    /\ UNCHANGED <<sink_args, sink_i, uploaded, products, sink_error,
                   requests, opened, polls, slept, task_status>>
    /\ UNCHANGED pipeline_vars

(***************************************************************************)
(* upload_designs(design_paths, method)                                    *)
(***************************************************************************)
Methods == {"imgbb", "github", "dropbox"}

\* where upload_designs goes with its method
Dispatch(paths, m) ==
    IF paths = <<>> THEN "summary"
    ELSE IF m = "imgbb" THEN "imgbb"
    ELSE IF m = "github" THEN "release"
    ELSE "summary"

InitUploadDesigns ==
    /\ entry = "upload_designs"
    /\ env \in SUBSET {"IMGBB_API_KEY", "GITHUB_TOKEN"}
    /\ api_key = FALSE
    /\ on_disk \in SUBSET Paths
    /\ design_paths \in PathLists
    /\ method \in Methods
    /\ sink_pc = Dispatch(design_paths, method)
    /\ sink_i = 1
    /\ SinkLocals
    /\ PipelineIdle

\* return results: of an empty list, after the loop of method imgbb, or of
\* a method that is neither imgbb nor github
UploadDesignsReturns ==
    /\ entry = "upload_designs"
    /\ \/ sink_pc = "summary"
       \/ sink_pc = "imgbb" /\ sink_i > Len(design_paths)
    /\ sink_pc' = "returned"
    /\ UNCHANGED <<sink_args, sink_i, results, uploaded, products, fn_result,
                   sink_error, requests, opened, polls, slept, task_status>>
    /\ UNCHANGED pipeline_vars

NextUpload ==
    \/ UploadToImgbb
    \/ CreateRelease
    \/ UploadAsset
    \/ ReleaseComplete
    \/ UploadDesignsReturns

(***************************************************************************)
(* upload_designs_to_printful(design_paths, base_price)                    *)
(***************************************************************************)
InitPrintful ==
    /\ entry = "upload_designs_to_printful"
    /\ env \in SUBSET {"PRINTFUL_API_KEY"}
    /\ api_key = FALSE
    /\ on_disk \in SUBSET Paths
    /\ design_paths \in PathLists
    /\ method = "printful"
    /\ sink_pc = "construct"
    /\ sink_i = 1
    /\ SinkLocals
    /\ PipelineIdle

\* uploader = PrintfulUploader(): __init__ raises ValueError without a key,
\* except ValueError: return []
ConstructUploader ==
    /\ sink_pc = "construct"
    /\ sink_pc' = IF Credential(api_key, env, "PRINTFUL_API_KEY") THEN "stores"
                  ELSE "returned"
    /\ UNCHANGED <<sink_args, sink_i, results, uploaded, products, fn_result,
                   sink_error, requests, opened, polls, slept, task_status>>
    /\ UNCHANGED pipeline_vars

\* what GET /stores can give: stores, no store, or the exception _request
\* raises again
StoresReplies == {"stores", "no stores", "error"}

\* stores = uploader.get_stores(), outside any try; if not stores: return []
GetStores ==
    /\ sink_pc = "stores"
    /\ \E reply \in StoresReplies :
          /\ requests' = Append(requests,
                                Request("printful stores", "", reply # "error"))
          /\ sink_pc' = IF reply = "stores" THEN "products"
                        ELSE IF reply = "no stores" THEN "returned"
                        ELSE "raised"
          /\ sink_error' = IF reply = "error" THEN "RequestException"
                           ELSE sink_error
    /\ UNCHANGED <<sink_args, sink_i, results, uploaded, products, fn_result,
                   opened, polls, slept, task_status>>
    /\ UNCHANGED pipeline_vars

\* How create_product can end once the file is open: the product is
\* created, POST /files raises, the file has no URL (ValueError), or POST
\* /store/products raises
ProductReplies == {"created", "file error", "no url", "product error"}

\* the requests create_product issues
ProductRequests(path, reply) ==
    IF reply = "file error" THEN <<Request("printful files", path, FALSE)>>
    ELSE IF reply = "no url" THEN <<Request("printful files", path, TRUE)>>
    ELSE <<Request("printful files", path, TRUE),
           Request("printful products", path, reply = "created")>>

\* one iteration of for design_path in design_paths: the try around
\* create_product, and except Exception: continue
CreateProduct ==
    /\ sink_pc = "products"
    /\ sink_i <= Len(design_paths)
    /\ \E design_path \in {design_paths[sink_i]} :
          \/ /\ design_path \notin on_disk
             /\ UNCHANGED <<opened, requests, products>>
          \/ /\ design_path \in on_disk
             /\ opened' = Append(opened, design_path)
             /\ \E reply \in ProductReplies :
                   /\ requests' = requests \o ProductRequests(design_path, reply)
                   /\ products' = IF reply = "created"
                                  THEN Append(products, design_path)
                                  ELSE products
    /\ sink_i' = sink_i + 1
    /\ UNCHANGED <<sink_args, sink_pc, results, uploaded, fn_result,
                   sink_error, polls, slept, task_status>>
    /\ UNCHANGED pipeline_vars

\* the loop is over: return products
PrintfulReturns ==
    /\ sink_pc = "products"
    /\ sink_i > Len(design_paths)
    /\ sink_pc' = "returned"
    /\ UNCHANGED <<sink_args, sink_i, results, uploaded, products, fn_result,
                   sink_error, requests, opened, polls, slept, task_status>>
    /\ UNCHANGED pipeline_vars

NextPrintful ==
    \/ ConstructUploader
    \/ GetStores
    \/ CreateProduct
    \/ PrintfulReturns

(***************************************************************************)
(* PrintfulUploader.create_mockup(design_file, product_type)               *)
(***************************************************************************)
\* mutant: one iteration too many
PollAgain_OffByOne(n) == n <= PollLimit

\* for _ in range(30): is there another iteration
PollAgain(n) == n < PollLimit

\* called on an uploader that has its key
InitMockup ==
    /\ entry = "create_mockup"
    /\ env = {"PRINTFUL_API_KEY"}
    /\ api_key = FALSE
    /\ on_disk \in SUBSET Paths
    /\ design_paths \in {q \in PathLists : Len(q) = 1}
    /\ method = "printful"
    /\ sink_pc = "task"
    /\ sink_i = 1
    /\ SinkLocals
    /\ PipelineIdle

\* How the part before the loop can end once the file is open: the task is
\* created, POST /files raises, POST create-task raises, or the reply has
\* no task_key (ValueError)
TaskReplies == {"task", "file error", "task error", "no task key"}

\* the requests issued before the loop
TaskRequests(path, reply) ==
    IF reply = "file error" THEN <<Request("printful files", path, FALSE)>>
    ELSE <<Request("printful files", path, TRUE),
           Request("printful create-task", "", reply # "task error")>>

\* the exception that ends the part before the loop
TaskError(reply) ==
    IF reply = "no task key" THEN "ValueError" ELSE "RequestException"

\* upload_file and POST /mockup-generator/create-task
CreateMockupTask ==
    /\ sink_pc = "task"
    /\ \E design_file \in {design_paths[sink_i]} :
          \/ /\ design_file \notin on_disk
             /\ sink_pc' = "raised"
             /\ sink_error' = "FileNotFoundError"
             /\ UNCHANGED <<opened, requests>>
          \/ /\ design_file \in on_disk
             /\ opened' = Append(opened, design_file)
             /\ \E reply \in TaskReplies :
                   /\ requests' = requests \o TaskRequests(design_file, reply)
                   /\ sink_pc' = IF reply = "task" THEN "poll" ELSE "raised"
                   /\ sink_error' = IF reply = "task" THEN sink_error
                                    ELSE TaskError(reply)
    /\ UNCHANGED <<sink_args, sink_i, results, uploaded, products, fn_result,
                   polls, slept, task_status>>
    /\ UNCHANGED pipeline_vars

\* What a status request can give: a status that is neither completed nor
\* failed, completed with mockups, completed with an empty list, failed,
\* or the exception _request raises again
PollReplies == {"pending", "completed", "completed empty", "failed", "error"}

\* where one iteration of the loop leaves the function
AfterPoll(reply) ==
    IF reply = "completed" THEN "returned"
    ELSE IF reply \in {"failed", "error"} THEN "raised"
    ELSE "poll"

\* the exception of one iteration of the loop, if any
PollError(reply) ==
    IF reply = "failed" THEN "ValueError"
    ELSE IF reply = "error" THEN "RequestException"
    ELSE "none"

\* one iteration of the loop: time.sleep(2), the status request, and the
\* tests of task_status
PollStatus ==
    /\ sink_pc = "poll"
    /\ PollAgain(polls)
    /\ slept' = slept + PollInterval
    /\ polls' = polls + 1
    /\ \E reply \in PollReplies :
          /\ requests' = Append(requests,
                                Request("printful task", "", reply # "error"))
          /\ task_status' = reply
          /\ sink_pc' = AfterPoll(reply)
          /\ sink_error' = PollError(reply)
          /\ fn_result' = IF reply = "completed" THEN "mockup_url"
                          ELSE fn_result
    /\ UNCHANGED <<sink_args, sink_i, results, uploaded, products, opened>>
    /\ UNCHANGED pipeline_vars

\* the loop is over: raise TimeoutError
PollTimedOut ==
    /\ sink_pc = "poll"
    /\ ~PollAgain(polls)
    /\ sink_pc' = "raised"
    /\ sink_error' = "TimeoutError"
    /\ UNCHANGED <<sink_args, sink_i, results, uploaded, products, fn_result,
                   requests, opened, polls, slept, task_status>>
    /\ UNCHANGED pipeline_vars

NextMockup ==
    \/ CreateMockupTask
    \/ PollStatus
    \/ PollTimedOut

(***************************************************************************)
(* The distribution sinks, each called on any paths                        *)
(***************************************************************************)
InitSinks ==
    \/ InitImgbb
    \/ InitRelease
    \/ InitUploadDesigns
    \/ InitPrintful
    \/ InitMockup

NextSinks == NextUpload \/ NextPrintful \/ NextMockup

SpecSinks == InitSinks /\ [][NextSinks]_vars

(***************************************************************************)
(* The pipeline entry points: process_trend, auto_generate,                *)
(* upload_designs, upload_designs_to_printful                              *)
(***************************************************************************)
InitEntryPoints ==
    \/ InitProcessTrend
    \/ InitAutoGenerate
    \/ InitUploadDesigns
    \/ InitPrintful

NextEntryPoints == Next \/ NextTrending \/ NextUpload \/ NextPrintful

SpecEntryPoints == InitEntryPoints /\ [][NextEntryPoints]_vars

(***************************************************************************)
(* Properties of generate_design                                           *)
(***************************************************************************)
\* positions of the calls to the endpoint in the log
CallIdx == {i \in DOMAIN log : log[i].type = "call"}

\* positions of the failed calls
FailedIdx == {i \in CallIdx : ~log[i].ok}

\* the number of calls made up to position i
CallNo(i) == Cardinality({j \in CallIdx : j <= i})

\* position i is followed by exactly one sleep of secs seconds, and any
\* later call is the next attempt
ThenSleeps(i, secs) ==
    /\ i + 1 <= Len(log)
    /\ log[i + 1].type = "sleep"
    /\ log[i + 1].secs = secs
    /\ i + 2 <= Len(log) =>
          /\ log[i + 2].type = "call"
          /\ log[i + 2].k = log[i].k + 1

\* the failed call at position i used up one attempt of the N, no more
ConsumesOneAttempt(i) ==
    /\ log[i].k = CallNo(i)
    /\ log[i].k <= retries
    /\ (gd_pc = "loop" /\ \A j \in CallIdx : j <= i) => attempt = log[i].k

\* what C1 says of every state
C1_State ==
    /\ Cardinality(CallIdx) <= retries
    /\ gd_pc = "loop" => Cardinality(CallIdx) = attempt
    /\ \A i \in CallIdx :
          log[i].ok => /\ i = Len(log)
                       /\ gd_pc = "returned"
                       /\ gd_result = "image"
                       /\ entry = "generate_design" => image \in GeneratedImages
    /\ (gd_pc = "returned" /\ gd_result = "image") =>
          /\ log # <<>>
          /\ log[Len(log)].type = "call"
          /\ log[Len(log)].ok
    /\ (gd_pc = "returned" /\ \A i \in CallIdx : ~log[i].ok /\ ~log[i].un) =>
          /\ gd_result = "None"
          /\ Cardinality(CallIdx) = retries

\* what C1 says of every step of the loop: it returns or it uses up an
\* attempt
C1_Step ==
    gd_pc = "loop" =>
        /\ gd_pc' = "returned" \/ (gd_pc' = "loop" /\ attempt' = attempt + 1)
        /\ attempt' <= retries

\* C1: generate_design terminates after at most N = retries calls to the
\* endpoint: every step of the loop returns or uses up one of the N
\* attempts; a successful attempt is the last event (no further call, no
\* sleep) and its image is returned; when every attempt made failed and
\* none of the failures was unauthorized-class, the function returns None
\* after exactly N calls.
C1_BoundedAttempts == []C1_State /\ [][C1_Step]_vars

\* C1 witness: three attempts, all failed, None returned
C1_Witness ==
    /\ gd_pc = "returned"
    /\ gd_result = "None"
    /\ retries >= 3
    /\ Cardinality(FailedIdx) = retries
    /\ \A i \in CallIdx : ~log[i].un

\* C2: an attempt that fails with an unauthorized-class error text ("401",
\* or "unauthorized" in any case), whatever else the text contains, ends
\* the function at once: None is returned, with no sleep and no further
\* call.
C2_UnauthorizedFailsFast ==
    \A i \in FailedIdx :
        log[i].un => /\ i = Len(log)
                     /\ gd_pc = "returned"
                     /\ gd_result = "None"

C4_RateLimitedWait ==
    \A i \in FailedIdx :
        (log[i].rl /\ ~log[i].su) => /\ ThenSleeps(i, 60)
                                     /\ ConsumesOneAttempt(i)

\* C4 witness: attempts 1 and 2 were both rate limited
C4_Witness ==
    \E i, j \in FailedIdx :
        /\ log[i].rl /\ ~log[i].su /\ log[i].k = 1
        /\ log[j].rl /\ ~log[j].su /\ log[j].k = 2
        /\ j + 1 <= Len(log)

\* C5: an attempt failing with an error of none of the three classes is
\* followed by a sleep of exactly 10 seconds and a retry when attempts
\* remain (k < N); the last attempt (k = N) is followed by no sleep and the
\* function returns None.
C5_UnknownErrorRetry ==
    \A i \in FailedIdx :
        (~log[i].su /\ ~log[i].rl /\ ~log[i].un) =>
            /\ ConsumesOneAttempt(i)
            /\ log[i].k < retries =>
                  /\ ThenSleeps(i, 10)
                  /\ i + 1 = Len(log) => gd_pc = "loop" /\ attempt < retries
            /\ log[i].k = retries =>
                  /\ i = Len(log)
                  /\ gd_pc = "returned" => gd_result = "None"
                  /\ gd_pc = "loop" => ~LoopContinues(attempt, retries)

\* C5 witness: an unknown error on attempt 1 was retried, another one on the
\* last attempt ended the function without a sleep
C5_Witness ==
    /\ gd_pc = "returned"
    /\ retries >= 2
    /\ \E i, j \in FailedIdx :
          /\ ~log[i].su /\ ~log[i].rl /\ ~log[i].un /\ log[i].k = 1
          /\ ~log[j].su /\ ~log[j].rl /\ ~log[j].un /\ log[j].k = retries
          /\ j = Len(log)

(***************************************************************************)
(* Properties of resize_for_print and process_trend                        *)
(***************************************************************************)
\* resize_for_print has computed its locals
Resized == rz_pc \in {"returned", "raised"}

\* source_ratio > target_ratio, in exact arithmetic
SourceWider == rz_image.width * rz_height > rz_width * rz_image.height

\* C6: the image resize_for_print returns is exactly (width, height), and a
\* file process_trend writes with resize enabled is exactly 4500 x 5400.
C6_CanvasSize ==
    /\ rz_pc = "returned" =>
          /\ rz.canvas.width = rz_width
          /\ rz.canvas.height = rz_height
    /\ (pt_pc = "returned" /\ pt_result = "path" /\ resize) =>
          /\ saved.width = 4500
          /\ saved.height = 5400

\* C6 witness: a file was written with resize enabled from a source that is
\* not 4500 x 5400
C6_Witness ==
    /\ pt_pc = "returned"
    /\ pt_result = "path"
    /\ resize
    /\ generated.width = 2
    /\ generated.height = 3

\* C7: the scaled content fits inside the canvas: a relatively wider source
\* gets the target width and a height within the target height, any other
\* source gets the target height and a width within the target width.
C7_ScaledFits ==
    Resized =>
        IF SourceWider
        THEN rz.new_width = rz_width /\ rz.new_height <= rz_height
        ELSE rz.new_height = rz_height /\ rz.new_width <= rz_width

\* C7 witness: a wider source scaled by width, strictly lower than the canvas
C7_Witness ==
    /\ rz_pc = "returned"
    /\ SourceWider
    /\ rz.new_width = rz_width
    /\ rz.new_height < rz_height
    /\ rz_image.width # rz_width

\* C8: the content is centered with non-negative offsets: left and right
\* padding differ by at most 1, and so do top and bottom padding.
C8_Centered ==
    Resized =>
        LET left   == rz.x
            right  == rz_width - rz.new_width - rz.x
            top    == rz.y
            bottom == rz_height - rz.new_height - rz.y
        IN  /\ rz.x = (rz_width - rz.new_width) \div 2
            /\ rz.y = (rz_height - rz.new_height) \div 2
            /\ left >= 0 /\ right >= 0 /\ top >= 0 /\ bottom >= 0
            /\ right - left \in {0, 1}
            /\ bottom - top \in {0, 1}
            /\ rz_pc = "returned" =>
                  rz.canvas.box = <<rz.x, rz.y, rz.new_width, rz.new_height>>

\* C8 witness: an odd horizontal margin, split 2 | 3
C8_Witness ==
    /\ rz_pc = "returned"
    /\ rz.x = 2
    /\ rz_width - rz.new_width - rz.x = 3

\* C9 as stated: the dependent scaled dimension is the value rounded to the
\* nearest integer.
C9_RoundedToNearest ==
    Resized =>
        LET img_ratio == IntTrueDiv(rz_image.width, rz_image.height)
        IN  IF rz.wider
            THEN rz.new_height = RoundHalfEven(FloatDiv(rz_width, img_ratio))
            ELSE rz.new_width = RoundHalfEven(FloatMul(rz_height, img_ratio))

\* C9 amended: the dependent scaled dimension is the floating-point value
\* truncated toward zero.  It never exceeds the exact value, and it is the
\* floor of the exact value unless that value is an integer that the
\* floating-point result falls short of, when it is one less.
C9_Truncated ==
    Resized =>
        IF SourceWider
        THEN /\ rz.wider
             /\ rz.new_height * rz_image.width <= rz_width * rz_image.height
             /\ rz_width * rz_image.height <= (rz.new_height + 1) * rz_image.width
        ELSE /\ ~rz.wider
             /\ rz.new_width * rz_image.height <= rz_height * rz_image.width
             /\ rz_height * rz_image.width <= (rz.new_width + 1) * rz_image.height

\* C9 witness: a source scaled by width whose exact height is an integer
\* and whose scaled height is one less (9 x 7 on 9 x 8: exact 7, scaled 6)
C9_Witness ==
    /\ rz_pc = "returned"
    /\ rz.wider
    /\ rz_width * rz_image.height = (rz.new_height + 1) * rz_image.width

\* C10: when remove_background raised, process_trend goes on with the
\* generated image, unmodified, through resize and save, and returns the
\* path of the file.
C10_BackgroundFailureTolerated ==
    bg_failed =>
        /\ pt_pc \in {"resize", "save", "returned"}
        /\ ~image.bg
        /\ pt_pc = "resize" => image = generated
        /\ pt_pc = "returned" =>
              /\ pt_result = "path"
              /\ saved = image
              /\ ~saved.bg
              /\ IF resize
                 THEN /\ saved.width = TSHIRT_WIDTH
                      /\ saved.height = TSHIRT_HEIGHT
                      /\ saved.box[3] <= TSHIRT_WIDTH
                      /\ saved.box[4] <= TSHIRT_HEIGHT
                 ELSE saved = generated

\* C10 witness: background removal failed and the resized file was written
C10_Witness ==
    /\ bg_failed
    /\ remove_bg
    /\ resize
    /\ pt_pc = "returned"
    /\ pt_result = "path"
    /\ saved.width = TSHIRT_WIDTH

(***************************************************************************)
(* Properties of get_trending_topics and auto_generate                     *)
(***************************************************************************)
\* C11: whenever a step that sets up or contacts the trends provider raised
\* (the construction of the client included), get_trending_topics returns
\* exactly the five fallback entries, in order, with values 100, 90, 80, 70,
\* 60, whatever region, timeframe and limit are, and no error reaches the
\* caller.
C11_FallbackOnAnyFailure ==
    tr_failed # "none" =>
        /\ tr_pc = "returned"
        /\ tr_result = << [query |-> "AI Generated Art", value |-> 100],
                          [query |-> "Viral Memes 2024", value |-> 90],
                          [query |-> "Trending Now", value |-> 80],
                          [query |-> "Just Vibing", value |-> 70],
                          [query |-> "No Cap", value |-> 60] >>
        /\ ag_pc # "raised"

\* positions of the items in the log of auto_generate
ItemIdx == {p \in DOMAIN ag_log : ag_log[p].type = "item"}

\* the number of items processed up to position p
ItemNo(p) == Cardinality({q \in ItemIdx : q <= p})

\* C15: auto_generate takes the trends one at a time in list order; every
\* item except the last is followed by exactly one sleep of 10 seconds
\* before the next item, whether it gave a file, gave None or raised; the
\* last item is followed by no sleep, and every trend has been processed
\* when the function returns.
C15_DelayBetweenItems ==
    /\ \A p \in ItemIdx :
          /\ ag_log[p].i = ItemNo(p)
          /\ ag_log[p].query = tr_result[ag_log[p].i].query
          /\ IF ag_log[p].i < Len(tr_result)
             THEN /\ p < Len(ag_log)
                  /\ ag_log[p + 1].type = "sleep"
                  /\ ag_log[p + 1].secs = 10
                  /\ p + 2 <= Len(ag_log) => ag_log[p + 2].type = "item"
             ELSE p = Len(ag_log)
    /\ (ag_pc = "returned" /\ tr_result # <<>>) =>
          Cardinality(ItemIdx) = Len(tr_result)

(***************************************************************************)
(* Properties of the distribution sinks                                    *)
(***************************************************************************)
\* the remote service accepted the upload of this path
Succeeded(path) == \E j \in DOMAIN requests :
                       requests[j].path = path /\ requests[j].ok

\* C12: upload_designs with method imgbb or github catches the failure of
\* an item and goes on: it returns, and then every path whose upload did
\* not succeed is in results['failed'], every path whose upload succeeded is
\* in results['uploaded'], and no path is in neither list.
C12_FailedItemsRecorded ==
    (entry = "upload_designs" /\ method \in {"imgbb", "github"}) =>
        /\ sink_pc # "raised"
        /\ sink_pc = "returned" =>
              \A path \in Range(design_paths) :
                  /\ Succeeded(path) => path \in Range(results.uploaded)
                  /\ ~Succeeded(path) => path \in Range(results.failed)

\* C13: the failure of a remote call never leaves a pipeline entry point as
\* an exception: process_trend raises only after the image was generated,
\* and returns None when it was not; auto_generate does not raise when the
\* trends provider failed; upload_designs and upload_designs_to_printful
\* never end with the exception of a request.
C13_RemoteFailuresContained ==
    /\ entry = "process_trend" =>
          /\ pt_pc = "raised" => gd_result = "image"
          /\ (pt_pc = "returned" /\ gd_result = "None") => pt_result = "None"
    /\ entry = "auto_generate" =>
          (tr_failed # "none" => ag_pc # "raised")
    /\ entry \in {"upload_designs", "upload_designs_to_printful"} =>
          ~(sink_pc = "raised" /\ sink_error = "RequestException")

\* the credential of a sink is missing: no argument given and the
\* environment variable unset
NoCredential(name) == ~api_key /\ name \notin env

\* the sink running was called without its credential
MissingCredential ==
    \/ entry = "upload_to_imgbb" /\ NoCredential("IMGBB_API_KEY")
    \/ entry = "create_github_release" /\ NoCredential("GITHUB_TOKEN")
    \/ entry = "upload_designs_to_printful" /\ NoCredential("PRINTFUL_API_KEY")

\* what C14 says of every state
C14_State ==
    /\ MissingCredential =>
          /\ sink_pc \in {"imgbb", "release", "construct", "returned"}
          /\ requests = <<>>
          /\ opened = <<>>
          /\ sink_error = "none"
          /\ sink_pc = "returned" =>
                IF entry = "upload_designs_to_printful" THEN products = <<>>
                ELSE fn_result = "None"
    /\ (entry = "upload_designs" /\ method = "imgbb"
          /\ NoCredential("IMGBB_API_KEY")) =>
          /\ requests = <<>>
          /\ opened = <<>>
          /\ sink_pc # "raised"
          /\ sink_pc = "returned" => results.failed = design_paths

\* what C14 says of every step: the first step of the sink is its return
C14_Step == MissingCredential => sink_pc' = "returned"

\* C14: a sink whose credential is missing is skipped: upload_to_imgbb and
\* create_github_release return None and upload_designs_to_printful returns
\* the empty list, at their first step, having issued no remote request,
\* opened no file and raised nothing.
C14_MissingCredentialSkips == []C14_State /\ [][C14_Step]_vars

\* C14 witness: upload_to_imgbb returned None for a file that exists, with
\* no key in the argument or the environment
C14_Witness ==
    /\ entry = "upload_to_imgbb"
    /\ NoCredential("IMGBB_API_KEY")
    /\ design_paths[1] \in on_disk
    /\ sink_pc = "returned"
    /\ fn_result = "None"

(***************************************************************************)
(* Properties of create_mockup                                             *)
(***************************************************************************)
\* the mockup task has been created: the polling loop has been entered
TaskCreated == entry = "create_mockup" /\ (sink_pc = "poll" \/ polls > 0)

\* what C16 says of the polls made so far
PollsWithinLimit ==
    /\ polls <= 30
    /\ slept = 2 * polls
    /\ task_status = "completed" <=> sink_pc = "returned"
    /\ sink_pc = "returned" => fn_result = "mockup_url"
    /\ task_status = "failed" =>
          sink_pc = "raised" /\ sink_error = "ValueError"

\* what C16 says of every step of the loop: it ends the function, or it is
\* one more poll after 2 more seconds of sleep
C16_Step ==
    TaskCreated =>
        \/ sink_pc' \in {"returned", "raised"}
        \/ polls' = polls + 1 /\ slept' = slept + 2

\* C16 as stated: after the task is created create_mockup makes at most 30
\* polls, each after a sleep of 2 seconds; it returns the mockup URL as
\* soon as a poll reports completed with mockups, raises the failure error
\* as soon as a poll reports failed, and in every other case raises the
\* timeout error after exactly 30 polls.
C16_ThirtyPollsOrTimeout ==
    TaskCreated =>
        /\ PollsWithinLimit
        /\ sink_pc = "raised" =>
              \/ task_status = "failed"
              \/ sink_error = "TimeoutError" /\ polls = 30

\* what amended C16 says of every state
C16_State ==
    TaskCreated =>
        /\ PollsWithinLimit
        /\ sink_pc = "raised" =>
              \/ task_status = "failed"
              \/ task_status = "error" /\ sink_error = "RequestException"
              \/ /\ sink_error = "TimeoutError"
                 /\ polls = 30
                 /\ task_status \in {"pending", "completed empty"}
        /\ task_status = "error" => sink_pc = "raised"

\* C16 amended: after the task is created create_mockup makes at most 30
\* polls, each after a sleep of 2 seconds, and every step of the loop ends
\* the function or is one more poll; it returns the mockup URL as soon as a
\* poll reports completed with mockups, raises the failure error as soon as
\* a poll reports failed, lets the error of a status request that itself
\* fails leave the function at once, and otherwise raises the timeout error
\* after exactly 30 polls.
C16_PollsBounded == []C16_State /\ [][C16_Step]_vars

\* C16 witness: the timeout after 30 polls and 60 seconds, the last poll
\* reporting completed with an empty mockup list
C16_Witness ==
    /\ entry = "create_mockup"
    /\ sink_pc = "raised"
    /\ sink_error = "TimeoutError"
    /\ polls = 30
    /\ slept = 60
    /\ task_status = "completed empty"

(***************************************************************************)
(* Properties of generate_design: the last attempt                         *)
(***************************************************************************)
\* the failed calls that were attempt number N
LastFailedIdx == {i \in FailedIdx : log[i].k = retries}

\* C17: the wait after a service-unavailable or rate-limited failure does
\* not depend on attempts remaining: when the last attempt (k = N) fails
\* with a service-unavailable error the function sleeps 60 * N seconds, with
\* a rate-limited error 60 seconds, and only then returns None, so the
\* sleep is the last event and no attempt follows it; an error of none of
\* the classes sleeps before a retry but not after the last attempt.
C17_UnconditionalBackoff ==
    /\ \A i \in LastFailedIdx :
          /\ log[i].su =>
                /\ ThenSleeps(i, 60 * retries)
                /\ i + 1 = Len(log)
          /\ (log[i].rl /\ ~log[i].su) =>
                /\ ThenSleeps(i, 60)
                /\ i + 1 = Len(log)
          /\ (~log[i].su /\ ~log[i].rl /\ ~log[i].un) => i = Len(log)
          /\ gd_pc = "returned" => gd_result = "None"
    /\ \A i \in FailedIdx \ LastFailedIdx :
          (~log[i].su /\ ~log[i].rl /\ ~log[i].un) => ThenSleeps(i, 10)

\* C17 witness: the third and last attempt failed with a service-unavailable
\* error, and None was returned after a sleep of 180 seconds that no
\* attempt follows
C17_Witness ==
    /\ retries = 3
    /\ gd_pc = "returned"
    /\ gd_result = "None"
    /\ Len(log) = 6
    /\ log[5].type = "call"
    /\ log[5].k = 3
    /\ log[5].su
    /\ log[6].type = "sleep"
    /\ log[6].secs = 180

=============================================================================
